---- MODULE Spec2Model ----
(***************************************************************************)
(* A model of lautils' latex_converter: the LaTeX-to-Markdown transformer  *)
(* of src/latex_converter.                                                 *)
(*                                                                         *)
(* A text is a sequence of tokens.  Every brace is a token of its own, so  *)
(* that brace counting and the regular expressions' "up to the first }"    *)
(* see exactly the braces the code sees; a command name (\caption), a word *)
(* (tabular), a blank and a line end are one token each.  Indices are      *)
(* Python's: 0-based, slices half-open.                                    *)
(***************************************************************************)
EXTENDS Integers, Sequences, FiniteSets, TLC

VARIABLES
    pc,           \* the control point of the operation under way
    kind,         \* which operation this behaviour runs
    input,        \* the text the operation was given
    text,         \* the text being scanned or rewritten
    start,        \* brace scan: index just past the opening brace
    i,            \* brace scan: the cursor
    brace_level,  \* brace scan: the nesting depth
    steps,        \* brace scan: iterations made so far
    title,        \* extracted title
    authors,      \* extracted authors
    rest,         \* re.sub under way: the text after the last match
    out,          \* re.sub under way: the text rewritten so far
    entire,       \* the environment matched last (m.group(0))
    inner,        \* table sub-converter: the text being converted
    captions,     \* the captions found in the environment matched last
    repl,         \* the text that replaced the environment matched last
    grid,         \* the grids rendered for it, one per tabular: rows of cells
    diag,         \* the diagnostics printed so far
    ran           \* the stages clean_latex_file has run, in order

scanVars == <<start, i, brace_level, steps>>

envVars == <<rest, out, entire, inner, captions, repl, grid>>

vars == <<pc, kind, input, text, scanVars, title, authors, envVars, diag, ran>>

----------------------------------------------------------------------------
(* Bounds of the model *)

MaxScanLen == 5

MaxCleanLen == 5

MaxMetaChunks == 4

MaxFigChunks == 3

MaxCapChunks == 3

MaxGridChunks == 4

MaxRows == 3

MaxDocChunks == 2

\* the longest author field, in tokens
MaxAuthorLen == 4

\* the longest text handed to one of the later converters, in pieces
MaxStageChunks == 3

----------------------------------------------------------------------------
(* Python's sequence operations *)

Tok(t, k) == t[k + 1]

Min(a, b) == IF a < b THEN a ELSE b

Max(a, b) == IF a > b THEN a ELSE b

Slice(t, a, b) == SubSeq(t, Max(a, 0) + 1, Min(b, Len(t)))

From(t, a) == Slice(t, a, Len(t))

SeqsUpTo(S, n) == UNION {[1..k -> S] : k \in 0..n}

----------------------------------------------------------------------------
(* The brace scanner: the loop                                             *)
(*     while i < len(text) and brace_level > 0:                            *)
(*         if text[i] == '{': brace_level += 1                             *)
(*         elif text[i] == '}': brace_level -= 1                           *)
(*         i += 1                                                          *)
(* which extract_title_authors, figure_repl, table_repl,                   *)
(* remove_captions_and_labels and _remove_latex_command each spell out.    *)

ScanContinuesNoDepth(t, k, lvl) == k < Len(t)

ScanContinues(t, k, lvl) == k < Len(t) /\ lvl > 0

NextLevelFlat(c, lvl) == IF c = "}" THEN lvl - 1 ELSE lvl

NextLevel(c, lvl) ==
    IF c = "{" THEN lvl + 1
    ELSE IF c = "}" THEN lvl - 1
    ELSE lvl

NextCursorOnBrace(c, k) == IF c \in {"{", "}"} THEN k + 1 ELSE k

NextCursor(c, k) == k + 1

RECURSIVE ScanFrom(_, _, _)
ScanFrom(t, k, lvl) ==
    IF ScanContinues(t, k, lvl)
    THEN ScanFrom(t, NextCursor(Tok(t, k), k), NextLevel(Tok(t, k), lvl))
    ELSE [i |-> k, brace_level |-> lvl]

Scan(t, s) == ScanFrom(t, s, 1)

----------------------------------------------------------------------------
(* SpecScan: one brace scan, iteration by iteration *)

ScanAlphabet == {"{", "}", "a"}

NoScan == start = 0 /\ i = 0 /\ brace_level = 0 /\ steps = 0

NoEnv ==
    /\ rest = <<>> /\ out = <<>> /\ entire = <<>> /\ inner = <<>>
    /\ captions = <<>> /\ repl = <<>> /\ grid = <<>>

Idle == title = <<>> /\ authors = <<>> /\ NoEnv /\ diag = <<>> /\ ran = <<>>

InitScan ==
    /\ kind = "scan"
    /\ input \in SeqsUpTo(ScanAlphabet, MaxScanLen)
    /\ text = input
    /\ start \in {k \in 1..Len(input) : input[k] = "{"}
    /\ i = start
    /\ brace_level = 1
    /\ steps = 0
    /\ pc = "scan"
    /\ Idle

ScanStep ==
    /\ pc = "scan"
    /\ ScanContinues(text, i, brace_level)
    /\ brace_level' = NextLevel(Tok(text, i), brace_level)
    /\ i' = NextCursor(Tok(text, i), i)
    /\ steps' = steps + 1
    /\ UNCHANGED <<pc, kind, input, text, start, title, authors, envVars,
                   diag, ran>>

ScanExit ==
    /\ pc = "scan"
    /\ ~ScanContinues(text, i, brace_level)
    /\ pc' = "scanned"
    /\ UNCHANGED <<kind, input, text, scanVars, title, authors, envVars,
                   diag, ran>>

NextScan == ScanStep \/ ScanExit

SpecScan == InitScan /\ [][NextScan]_vars

----------------------------------------------------------------------------
(* The depth and the matching brace, counted without the loop *)

RECURSIVE Depth(_)
Depth(s) ==
    IF s = <<>> THEN 0
    ELSE Depth(SubSeq(s, 1, Len(s) - 1))
         + (IF s[Len(s)] = "{" THEN 1 ELSE IF s[Len(s)] = "}" THEN -1 ELSE 0)

Balanced(s) ==
    /\ Depth(s) = 0
    /\ \A k \in 0..Len(s) : Depth(SubSeq(s, 1, k)) >= 0

MatchesAt(t, s, e) ==
    /\ s < e /\ e <= Len(t)
    /\ Tok(t, e - 1) = "}"
    /\ Balanced(Slice(t, s, e - 1))

\* C1: a brace scan makes at most len(text) - start iterations, and each
\* iteration moves the cursor by exactly one token: after `steps` iterations
\* the cursor is at start + steps, whether the braces balance or not.
C1_ScanBounded ==
    kind = "scan" =>
        /\ i = start + steps
        /\ steps <= Len(text) - start
        /\ (pc = "scan" /\ steps = Len(text) - start
                => ~ScanContinues(text, i, brace_level))

C1_Witness ==
    /\ kind = "scan" /\ pc = "scanned"
    /\ steps = Len(text) - start /\ steps >= 2
    /\ brace_level > 0

\* C2: in every state of a scan the depth is >= 0 and the cursor is within
\* the text; the depth is 1 plus the opening minus the closing braces read,
\* and every token read was read at a depth > 0 (the scan stops at the first
\* position where the depth reaches 0).
C2_DepthInvariant ==
    kind = "scan" =>
        /\ brace_level >= 0
        /\ i <= Len(text)
        /\ brace_level = 1 + Depth(Slice(text, start, i))
        /\ \A k \in start..(i - 1) : 1 + Depth(Slice(text, start, k)) > 0

C2_Witness ==
    /\ kind = "scan" /\ pc = "scanned"
    /\ brace_level = 0 /\ i < Len(text)
    /\ \E k \in start..(i - 1) : Tok(text, k) = "{"

\* C3: a scan that ends with depth 0 ends just past the brace matching the
\* opening one (the token before the end is "}", what lies between is
\* balanced, and no earlier end is such); it ends with depth > 0 exactly
\* when the text from start on holds no matching closing brace.
C3_MatchingBrace ==
    (kind = "scan" /\ pc = "scanned") =>
        /\ brace_level = 0 =>
              /\ MatchesAt(text, start, i)
              /\ \A e \in (start + 1)..(i - 1) : ~MatchesAt(text, start, e)
        /\ brace_level > 0 <=>
              ~\E e \in (start + 1)..Len(text) : MatchesAt(text, start, e)

C3_Witness ==
    /\ kind = "scan" /\ pc = "scanned"
    /\ brace_level = 0 /\ i - start >= 3
    /\ Tok(text, start) = "{"

----------------------------------------------------------------------------
(* formats.py: final_cleanup *)

\* what str.strip() removes
IsSpace(c) == c \in {" ", "\t", "\n", "\r"}

\* the length of the longest prefix of t made of tokens of S
RECURSIVE Run(_, _)
Run(t, S) ==
    IF t /= <<>> /\ Head(t) \in S THEN 1 + Run(Tail(t), S) ELSE 0

\* re.sub(r'[ \t]*\n[ \t]*', '\n', text)
RECURSIVE TrimAroundNewlines(_)
TrimAroundNewlines(t) ==
    IF t = <<>> THEN <<>>
    ELSE LET b == Run(t, {" ", "\t"})
         IN  IF b < Len(t) /\ Tok(t, b) = "\n"
             THEN LET a == Run(From(t, b + 1), {" ", "\t"})
                  IN  <<"\n">> \o TrimAroundNewlines(From(t, b + 1 + a))
             ELSE <<Head(t)>> \o TrimAroundNewlines(Tail(t))

\* re.sub(r' {2,}', ' ', text)
RECURSIVE CollapseSpaces(_)
CollapseSpaces(t) ==
    IF t = <<>> THEN <<>>
    ELSE LET n == Run(t, {" "})
         IN  IF n >= 2 THEN <<" ">> \o CollapseSpaces(From(t, n))
             ELSE <<Head(t)>> \o CollapseSpaces(Tail(t))

\* re.sub(r'\n{3,}', '\n\n', text)
RECURSIVE CollapseNewlines(_)
CollapseNewlines(t) ==
    IF t = <<>> THEN <<>>
    ELSE LET n == Run(t, {"\n"})
         IN  IF n >= 3 THEN <<"\n", "\n">> \o CollapseNewlines(From(t, n))
             ELSE <<Head(t)>> \o CollapseNewlines(Tail(t))

RECURSIVE LStrip(_)
LStrip(t) == IF t /= <<>> /\ IsSpace(Head(t)) THEN LStrip(Tail(t)) ELSE t

RECURSIVE RStrip(_)
RStrip(t) ==
    IF t /= <<>> /\ IsSpace(t[Len(t)])
    THEN RStrip(SubSeq(t, 1, Len(t) - 1))
    ELSE t

RECURSIVE LStripBlanks(_)
LStripBlanks(t) ==
    IF t /= <<>> /\ Head(t) = " " THEN LStripBlanks(Tail(t)) ELSE t

RECURSIVE RStripBlanks(_)
RStripBlanks(t) ==
    IF t /= <<>> /\ t[Len(t)] = " "
    THEN RStripBlanks(SubSeq(t, 1, Len(t) - 1))
    ELSE t

StripBlanksOnly(t) == RStripBlanks(LStripBlanks(t))

\* str.strip()
Strip(t) == RStrip(LStrip(t))

\* final_cleanup without re.sub(r'\n{3,}', '\n\n', text)
CleanupKeepNewlines(t) ==
    Strip(CollapseSpaces(TrimAroundNewlines(t))) \o <<"\n">>

final_cleanup(t) ==
    Strip(CollapseNewlines(CollapseSpaces(TrimAroundNewlines(t)))) \o <<"\n">>

----------------------------------------------------------------------------
(* SpecCleanup: final_cleanup applied to a text, and again to its result *)

CleanAlphabet == {" ", "\t", "\n", "\r", "a"}

InitCleanup ==
    /\ kind = "cleanup"
    /\ input \in SeqsUpTo(CleanAlphabet, MaxCleanLen)
    /\ text = input
    /\ pc = "cleanup"
    /\ NoScan
    /\ Idle

\* document_content = final_cleanup(document_content)
FinalCleanup ==
    /\ pc = "cleanup"
    /\ out' = final_cleanup(text)
    /\ pc' = "cleaned"
    /\ UNCHANGED <<kind, input, text, scanVars, title, authors, rest, entire,
                   inner, captions, repl, grid, diag, ran>>

\* the result handed to final_cleanup once more
FinalCleanupAgain ==
    /\ pc = "cleaned"
    /\ text' = out
    /\ out' = final_cleanup(out)
    /\ pc' = "cleaned twice"
    /\ UNCHANGED <<kind, input, scanVars, title, authors, rest, entire,
                   inner, captions, repl, grid, diag, ran>>

NextCleanup == FinalCleanup \/ FinalCleanupAgain

SpecCleanup == InitCleanup /\ [][NextCleanup]_vars

\* C9: final_cleanup is idempotent: applied to its own result it returns that
\* result unchanged.
C9_CleanupIdempotent ==
    (kind = "cleanup" /\ pc = "cleaned twice") => out = text

C9_Witness ==
    /\ kind = "cleanup" /\ pc = "cleaned twice"
    /\ out = text
    /\ Len(input) = MaxCleanLen
    /\ Len(out) < Len(input)
    /\ \E k \in 1..(Len(out) - 1) : IsSpace(out[k])

----------------------------------------------------------------------------
(* Regular expressions on token sequences *)

\* the least index >= from at which pat occurs in t, or -1
RECURSIVE FindSeq(_, _, _)
FindSeq(t, pat, from) ==
    IF from + Len(pat) > Len(t) THEN -1
    ELSE IF Slice(t, from, from + Len(pat)) = pat THEN from
    ELSE FindSeq(t, pat, from + 1)

\* the least index >= from of a token of S in t, or -1
RECURSIVE FindTok(_, _, _)
FindTok(t, S, from) ==
    IF from >= Len(t) THEN -1
    ELSE IF Tok(t, from) \in S THEN from
    ELSE FindTok(t, S, from + 1)

\* sep.join(parts)
RECURSIVE Join(_, _)
Join(parts, sep) ==
    IF parts = <<>> THEN <<>>
    ELSE IF Len(parts) = 1 THEN parts[1]
    ELSE parts[1] \o sep \o Join(Tail(parts), sep)

\* r'\\label\{([^}]+)\}' matched at p: the index of its closing brace, or -1
LabelEnd(t, p) ==
    IF /\ p + 2 < Len(t)
       /\ Tok(t, p) = "\\label" /\ Tok(t, p + 1) = "{" /\ Tok(t, p + 2) /= "}"
    THEN FindTok(t, {"}"}, p + 3)
    ELSE -1

\* label_pattern.findall(t): the label names, in order
RECURSIVE LabelsFrom(_, _)
LabelsFrom(t, p) ==
    IF p >= Len(t) THEN <<>>
    ELSE IF LabelEnd(t, p) >= 0
         THEN <<Slice(t, p + 2, LabelEnd(t, p))>>
                  \o LabelsFrom(t, LabelEnd(t, p) + 1)
         ELSE LabelsFrom(t, p + 1)

FindLabels(t) == LabelsFrom(t, 0)

\* re.sub(r'\\label\{[^}]+\}', '', t)
RECURSIVE RemoveLabelsFrom(_, _)
RemoveLabelsFrom(t, p) ==
    IF p >= Len(t) THEN <<>>
    ELSE IF LabelEnd(t, p) >= 0
         THEN RemoveLabelsFrom(t, LabelEnd(t, p) + 1)
         ELSE <<Tok(t, p)>> \o RemoveLabelsFrom(t, p + 1)

RemoveLabels(t) == RemoveLabelsFrom(t, 0)

\* f"\\label{{{label}}}"
LabelMarker(name) == <<"\\label", "{">> \o name \o <<"}">>

----------------------------------------------------------------------------
(* converters.py: apply_inline_formats *)

\* the token standing for the backquote character
Tick == "(backquote)"

\* r'\\(?:cmds)\{(.*?)\}' matched at the head of t: the index of its closing
\* brace, or -1 ("." matches no line end)
InlineEnd(t, cmds) ==
    IF Len(t) >= 2 /\ t[1] \in cmds /\ t[2] = "{"
    THEN LET q == FindTok(t, {"}", "\n"}, 2)
         IN  IF q >= 0 /\ Tok(t, q) = "}" THEN q ELSE -1
    ELSE -1

\* pattern.sub(lambda m: w + m.group(1).strip() + w, t)
RECURSIVE InlinePass(_, _, _)
InlinePass(t, cmds, w) ==
    IF t = <<>> THEN <<>>
    ELSE IF InlineEnd(t, cmds) >= 0
         THEN <<w>> \o Strip(Slice(t, 2, InlineEnd(t, cmds))) \o <<w>>
                  \o InlinePass(From(t, InlineEnd(t, cmds) + 1), cmds, w)
         ELSE <<Head(t)>> \o InlinePass(Tail(t), cmds, w)

\* re.sub(r'\\cmd\{(.*?)\}', w + r'\1' + w, t): the argument is not trimmed
RECURSIVE WrapPass(_, _, _)
WrapPass(t, cmds, w) ==
    IF t = <<>> THEN <<>>
    ELSE IF InlineEnd(t, cmds) >= 0
         THEN <<w>> \o Slice(t, 2, InlineEnd(t, cmds)) \o <<w>>
                  \o WrapPass(From(t, InlineEnd(t, cmds) + 1), cmds, w)
         ELSE <<Head(t)>> \o WrapPass(Tail(t), cmds, w)

apply_inline_formats(t) ==
    InlinePass(InlinePass(InlinePass(t, {"\\emph", "\\textit"}, "*"),
                          {"\\textbf"}, "**"),
               {"\\textsc"}, Tick)

----------------------------------------------------------------------------
(* latex_processing.py: extract_title_authors *)

WarnTitle == "Warning: Unbalanced braces in \\title command."

WarnAuthor == "Warning: Unbalanced braces in \\author command."

\* the remainder of the text taken as the value, untrimmed
UnbalancedValueRaw(t, s) == From(t, s)

\* title = text[start:].strip()
UnbalancedValue(t, s) == Strip(From(t, s))

\* one of the two blocks of extract_title_authors: the first cmd{ of t, its
\* argument, and t without the declaration
ExtractCommand(t, cmd, warn) ==
    LET m == FindSeq(t, <<cmd, "{">>, 0)
        s == m + 2
        r == Scan(t, s)
    IN  IF m = -1 THEN [text |-> t, value |-> <<>>, diag |-> <<>>]
        ELSE IF r.brace_level = 0
        THEN [text  |-> Slice(t, 0, m) \o From(t, r.i),
              value |-> Strip(Slice(t, s, r.i - 1)),
              diag  |-> <<>>]
        ELSE [text  |-> Slice(t, 0, m),
              value |-> UnbalancedValue(t, s),
              diag  |-> <<warn>>]

----------------------------------------------------------------------------
(* converters.py: the caption loop of figure_repl and table_repl *)

WarnFigure == "Warning: Unbalanced braces in figure caption."

WarnTable == "Warning: Unbalanced braces in table caption."

\* the caption text with its labels left in
CaptionTextKeepLabels(a) == Strip(a)

\* caption_text = ....strip(); re.sub(label, "", caption_text).strip()
CaptionText(a) == Strip(RemoveLabels(Strip(a)))

RECURSIVE CaptionLoop(_, _, _)
CaptionLoop(t, pos, warn) ==
    LET c == FindSeq(t, <<"\\caption", "{">>, pos)
        s == c + 2
        r == Scan(t, s)
    IN  IF c = -1 THEN [captions |-> <<>>, diag |-> <<>>]
        ELSE IF r.brace_level = 0
        THEN LET more == CaptionLoop(t, r.i, warn)
             IN  [captions |-> <<CaptionText(Slice(t, s, r.i - 1))>>
                                   \o more.captions,
                  diag     |-> more.diag]
        ELSE [captions |-> <<CaptionText(From(t, s))>>, diag |-> <<warn>>]

\* full_caption = apply_inline_formats(' '.join(captions).strip())
FullCaption(caps) == apply_inline_formats(Strip(Join(caps, <<" ">>)))

----------------------------------------------------------------------------
(* converters.py: replace_figures *)

\* r'\\begin\{name.*?\}(.*?)\\end\{name.*?\}' with re.DOTALL, leftmost match:
\* start and end of the match, and the bounds of what lies between the
\* delimiters
EnvMatch(t, name) ==
    LET b == FindSeq(t, <<"\\begin", "{", name>>, 0)
        h == IF b = -1 THEN -1 ELSE FindTok(t, {"}"}, b + 3)
        e == IF h = -1 THEN -1 ELSE FindSeq(t, <<"\\end", "{", name>>, h + 1)
        c == IF e = -1 THEN -1 ELSE FindTok(t, {"}"}, e + 3)
    IN  [found |-> c /= -1, start |-> b, body |-> h + 1, close |-> e,
         end |-> c + 1]

\* labels = label_pattern.findall(inner), where inner = m.group(1)
FigureLabels(m, t) == FindLabels(Slice(t, m.body, m.close))

RECURSIVE LabelsSuffix(_)
LabelsSuffix(names) ==
    IF names = <<>> THEN <<>>
    ELSE <<" ">> \o LabelMarker(Head(names)) \o LabelsSuffix(Tail(names))

\* figure_repl for the match m of t
figure_repl(m, t) ==
    LET cl == CaptionLoop(Slice(t, m.body, m.close), 0, WarnFigure)
    IN  [captions |-> cl.captions,
         diag     |-> cl.diag,
         repl     |-> <<"\n", "\n", "**Figure:**", " ">>
                          \o FullCaption(cl.captions)
                          \o LabelsSuffix(FigureLabels(m, t))
                          \o <<"\n", "\n">>]

----------------------------------------------------------------------------
(* converters.py: replace_tables, the grid sub-converter *)

BeginTabular == <<"\\begin", "{", "tabular", "}">>

EndTabular == <<"\\end", "{", "tabular", "}">>

\* r'\\cmd\{[^\}]*\}\{' matched at p: the index just past it, or -1
TwoArgOpen(t, p, cmd) ==
    IF p + 1 < Len(t) /\ Tok(t, p) = cmd /\ Tok(t, p + 1) = "{"
    THEN LET q == FindTok(t, {"}"}, p + 2)
         IN  IF q >= 0 /\ q + 1 < Len(t) /\ Tok(t, q + 1) = "{"
             THEN q + 2 ELSE -1
    ELSE -1

\* re.search(r'\\scalebox\{[^\}]*\}\{', inner)
RECURSIVE ScaleboxFoundFrom(_, _)
ScaleboxFoundFrom(t, p) ==
    IF p >= Len(t) THEN FALSE
    ELSE IF TwoArgOpen(t, p, "\\scalebox") >= 0 THEN TRUE
    ELSE ScaleboxFoundFrom(t, p + 1)

ScaleboxFound(t) == ScaleboxFoundFrom(t, 0)

\* re.sub(r'\\cmd\{[^\}]*\}\{(.*?)\}', r'\1', t); stops is what ends "(.*?)":
\* the closing brace, and a line end where "." does not match it
RECURSIVE UnwrapFrom(_, _, _, _)
UnwrapFrom(t, p, cmd, stops) ==
    IF p >= Len(t) THEN <<>>
    ELSE LET a == TwoArgOpen(t, p, cmd)
             r == IF a >= 0 THEN FindTok(t, stops, a) ELSE -1
         IN  IF r >= 0 /\ Tok(t, r) = "}"
             THEN Slice(t, a, r) \o UnwrapFrom(t, r + 1, cmd, stops)
             ELSE <<Tok(t, p)>> \o UnwrapFrom(t, p + 1, cmd, stops)

\* inner = re.sub(r'\\scalebox\{[^\}]*\}\{(.*?)\}', r'\1', inner, flags=re.DOTALL)
ScaleboxSub(t) == UnwrapFrom(t, 0, "\\scalebox", {"}"})

NestedAbove(open) == open > 1

RECURSIVE NestedFrom(_, _, _)
NestedFrom(tex, pos, open) ==
    IF pos >= Len(tex) THEN FALSE
    ELSE LET b == FindSeq(tex, BeginTabular, pos)
             e == FindSeq(tex, EndTabular, pos)
         IN  IF b /= -1 /\ (e = -1 \/ b < e)
             THEN IF NestedAbove(open + 1) THEN TRUE
                  ELSE NestedFrom(tex, b + Len(BeginTabular), open + 1)
             ELSE IF e /= -1
                  THEN NestedFrom(tex, e + Len(EndTabular), open - 1)
                  ELSE FALSE

has_nested_tabulars(tex) == NestedFrom(tex, 0, 0)

\* r'\\begin\{tabular\}\{.*?\}(.*?)\\end\{tabular\}' matched at p: the bounds
\* of group 1 and the end of the match, found = FALSE if it does not match
TabularAt(t, p) ==
    LET c == IF Slice(t, p, p + 5) = BeginTabular \o <<"{">>
             THEN FindTok(t, {"}"}, p + 5) ELSE -1
        e == IF c = -1 THEN -1 ELSE FindSeq(t, EndTabular, c + 1)
    IN  [found |-> e /= -1, from |-> c + 1, to |-> e,
         end |-> e + Len(EndTabular)]

\* [m.group(1) for m in tabular_env.finditer(inner)]
RECURSIVE TabularsFrom(_, _)
TabularsFrom(t, p) ==
    IF p >= Len(t) THEN <<>>
    ELSE IF TabularAt(t, p).found
         THEN <<Slice(t, TabularAt(t, p).from, TabularAt(t, p).to)>>
                  \o TabularsFrom(t, TabularAt(t, p).end)
         ELSE TabularsFrom(t, p + 1)

\* re.sub(r'\\cmidrule\{[^\}]*\}', '', re.sub(r'\\toprule|\\midrule|\\bottomrule', '', c))
RECURSIVE RemoveRules(_)
RemoveRules(t) ==
    IF t = <<>> THEN <<>>
    ELSE IF Head(t) \in {"\\toprule", "\\midrule", "\\bottomrule"}
         THEN RemoveRules(Tail(t))
         ELSE <<Head(t)>> \o RemoveRules(Tail(t))

RECURSIVE RemoveCmidrule(_)
RemoveCmidrule(t) ==
    IF t = <<>> THEN <<>>
    ELSE IF /\ Len(t) >= 2 /\ t[1] = "\\cmidrule" /\ t[2] = "{"
            /\ FindTok(t, {"}"}, 2) >= 0
         THEN RemoveCmidrule(From(t, FindTok(t, {"}"}, 2) + 1))
         ELSE <<Head(t)>> \o RemoveCmidrule(Tail(t))

\* t.split(sep), sep one token
RECURSIVE Split(_, _)
Split(t, sep) ==
    IF FindTok(t, {sep}, 0) = -1 THEN <<t>>
    ELSE <<Slice(t, 0, FindTok(t, {sep}, 0))>>
             \o Split(From(t, FindTok(t, {sep}, 0) + 1), sep)

\* [f(x) for x in parts if f(x)], f = str.strip
RECURSIVE StripNonEmpty(_)
StripNonEmpty(parts) ==
    IF parts = <<>> THEN <<>>
    ELSE IF Strip(Head(parts)) = <<>> THEN StripNonEmpty(Tail(parts))
    ELSE <<Strip(Head(parts))>> \o StripNonEmpty(Tail(parts))

\* the row with its escaped separators left escaped
UnescapeKept(r) == r

\* r.replace(r'\&', '&')
Unescape(r) == [k \in 1..Len(r) |-> IF r[k] = "\\&" THEN "&" ELSE r[k]]

\* the cells of one row
RowCells(r) ==
    LET a == UnwrapFrom(r, 0, "\\textcolor", {"}", "\n"})
        b == WrapPass(a, {"\\textbf"}, "**")
        c == WrapPass(b, {"\\emph"}, "*")
        cells == Split(Unescape(c), "&")
    IN  [k \in 1..Len(cells) |-> Strip(cells[k])]

\* rows = [r.strip() for r in re.split(r'\\\\', tabular_content) if r.strip()]
TabularRows(content) ==
    StripNonEmpty(Split(RemoveCmidrule(RemoveRules(content)), "\\\\"))

FixRowPadOnly(row, n) ==
    IF Len(row) < n THEN row \o [k \in 1..(n - Len(row)) |-> <<>>] ELSE row

\* a data row padded or cut to num_cols cells
FixRow(row, n) ==
    IF Len(row) < n THEN row \o [k \in 1..(n - Len(row)) |-> <<>>]
    ELSE SubSeq(row, 1, n)

\* the rows rendered for one tabular: header, separator, data rows
GridOf(rows) ==
    LET table_rows == [k \in 1..Len(rows) |-> RowCells(rows[k])]
        num_cols   == Len(table_rows[1])
    IN  <<table_rows[1], [k \in 1..num_cols |-> <<"---">>]>>
            \o [k \in 1..(Len(rows) - 1) |-> FixRow(table_rows[k + 1], num_cols)]

\* "| " + " | ".join(row) + " |\n"
RenderRow(row) ==
    <<"|", " ">> \o Join(row, <<" ", "|", " ">>) \o <<" ", "|", "\n">>

\* md_table for one grid
RenderGrid(g) ==
    <<"\n", "\n">> \o Join([k \in 1..Len(g) |-> RenderRow(g[k])], <<>>)
                   \o <<"\n", "\n">>

\* the grids of the tabulars that have rows
RECURSIVE GridsOf(_)
GridsOf(contents) ==
    IF contents = <<>> THEN <<>>
    ELSE IF TabularRows(Head(contents)) = <<>> THEN GridsOf(Tail(contents))
    ELSE <<GridOf(TabularRows(Head(contents)))>> \o GridsOf(Tail(contents))

\* convert_tabular_to_markdown after its scalebox loop: None when nested,
\* else the Markdown of the grids
ConvertTabulars(t) ==
    LET grids == GridsOf(TabularsFrom(t, 0))
    IN  IF has_nested_tabulars(t)
        THEN [nested |-> TRUE, grids |-> <<>>, md |-> <<>>]
        ELSE [nested |-> FALSE, grids |-> grids,
              md |-> Join([k \in 1..Len(grids) |-> RenderGrid(grids[k])], <<>>)]

----------------------------------------------------------------------------
(* converters.py: replace_tables, table_repl *)

\* the token standing for three backquotes
Fence == "(fence)"

WarnNested ==
    "Warning: Nested tabular environments detected. Retaining tabular content as LaTeX code."

WarnFailed == "Warning: Table conversion failed or no tabulars found."

RECURSIVE RemoveCaptionsFrom(_, _)
RemoveCaptionsFrom(tex, start_idx) ==
    LET c == FindSeq(tex, <<"\\caption", "{">>, start_idx)
    IN  IF c = -1 THEN From(tex, start_idx)
        ELSE Slice(tex, start_idx, c)
                 \o RemoveCaptionsFrom(tex, Scan(tex, c + 2).i)

\* remove_captions_and_labels that leaves the labels in
RemoveCaptionsOnly(tex) == RemoveCaptionsFrom(tex, 0)

remove_captions_and_labels(tex) == RemoveLabels(RemoveCaptionsFrom(tex, 0))

\* re.findall(r'\\begin\{tabular\}.*?\\end\{tabular\}', entire_table, flags=re.DOTALL)
RECURSIVE RawTabularsFrom(_, _)
RawTabularsFrom(t, p) ==
    LET b == FindSeq(t, BeginTabular, p)
        e == IF b = -1 THEN -1 ELSE FindSeq(t, EndTabular, b + Len(BeginTabular))
    IN  IF e = -1 THEN <<>>
        ELSE <<Slice(t, b, e + Len(EndTabular))>>
                 \o RawTabularsFrom(t, e + Len(EndTabular))

\* labels = label_pattern.findall(entire_table)
TableLabels(entire_table) == FindLabels(entire_table)

\* ' '.join([f"\\label{{{label}}}" for label in labels])
LabelsStr(names) ==
    Join([k \in 1..Len(names) |-> LabelMarker(names[k])], <<" ">>)

TableHead(caps, entire_table) ==
    <<"\n", "\n", "**Table:**", " ">> \o FullCaption(caps) \o <<" ">>
        \o LabelsStr(TableLabels(entire_table)) \o <<"\n", "\n">>

Fenced(body) == <<Fence, "latex", "\n">> \o body \o <<"\n", Fence, "\n", "\n">>

\* the three returns of table_repl, given the captions and what
\* convert_tabular_to_markdown made of the table once its scalebox loop ended
TableResult(entire_table, caps, conv) ==
    IF conv.nested
    THEN [repl |-> TableHead(caps, entire_table)
                       \o Fenced(Join(RawTabularsFrom(entire_table, 0), <<"\n">>)),
          diag |-> <<WarnNested>>, path |-> "nested"]
    ELSE IF conv.md = <<>>
    THEN [repl |-> TableHead(caps, entire_table)
                       \o Fenced(remove_captions_and_labels(entire_table)),
          diag |-> <<WarnFailed>>, path |-> "failed"]
    ELSE [repl |-> TableHead(caps, entire_table) \o conv.md \o <<"\n">>,
          diag |-> <<>>, path |-> "markdown"]

----------------------------------------------------------------------------
(* latex_processing.py: preprocess_abstract, extract_document_content,      *)
(* remove_comments                                                          *)

\* what \s matches
Spaces == {" ", "\t", "\n", "\r"}

\* re.sub of a pattern that is one fixed string
RECURSIVE ReplaceAll(_, _, _)
ReplaceAll(t, pat, rep) ==
    IF t = <<>> THEN <<>>
    ELSE IF Len(t) >= Len(pat) /\ SubSeq(t, 1, Len(pat)) = pat
         THEN rep \o ReplaceAll(From(t, Len(pat)), pat, rep)
         ELSE <<Head(t)>> \o ReplaceAll(Tail(t), pat, rep)

Env(word, name) == <<word, "{", name, "}">>

preprocess_abstract(t) ==
    ReplaceAll(ReplaceAll(t, Env("\\begin", "abstract"),
                          <<"\\section", "*", "{", "Abstract", "}">>),
               Env("\\end", "abstract"), <<>>)

\* r'\\begin\{document\}(.*?)\\end\{document\}' with re.DOTALL
extract_document_content(t) ==
    LET b == FindSeq(t, Env("\\begin", "document"), 0)
        e == IF b = -1 THEN -1 ELSE FindSeq(t, Env("\\end", "document"), b + 4)
    IN  IF e = -1 THEN t ELSE Slice(t, b + 4, e)

\* r'(?<!\\)%.*' matches at p: a "%" that no backslash precedes (the row
\* break \\ is the token that ends with one; an escaped \% is one token)
CommentAt(t, p) ==
    /\ Tok(t, p) = "%"
    /\ p = 0 \/ Tok(t, p - 1) /= "\\\\"

\* re.sub(r'(?<!\\)%.*', '', t): "." matches no "\n"
RECURSIVE StripComments(_, _)
StripComments(t, p) ==
    IF p >= Len(t) THEN <<>>
    ELSE IF CommentAt(t, p)
         THEN IF FindTok(t, {"\n"}, p) = -1 THEN <<>>
              ELSE StripComments(t, FindTok(t, {"\n"}, p))
         ELSE <<Tok(t, p)>> \o StripComments(t, p + 1)

ParaBreak == "<<<PARA_BREAK>>>"

\* re.sub(r'\s+', ' ', t)
RECURSIVE CollapseWhitespace(_)
CollapseWhitespace(t) ==
    IF t = <<>> THEN <<>>
    ELSE IF Head(t) \in Spaces
         THEN <<" ">> \o CollapseWhitespace(From(t, Run(t, Spaces)))
         ELSE <<Head(t)>> \o CollapseWhitespace(Tail(t))

remove_comments(t) ==
    LET t1 == StripComments(t, 0)
        t2 == ReplaceAll(t1, <<"\r", "\n">>, <<"\n">>)
        t3 == CollapseNewlines(t2)
        t4 == ReplaceAll(t3, <<"\n", "\n">>, <<ParaBreak>>)
        t5 == ReplaceAll(t4, <<"\n">>, <<" ">>)
        t6 == Strip(CollapseWhitespace(t5))
    IN  ReplaceAll(t6, <<ParaBreak>>, <<"\n", "\n">>)

----------------------------------------------------------------------------
(* converters.py: replace_maketitle, replace_equations, replace_headings,   *)
(* replace_lists                                                            *)

\* re.split on any one of the tokens of S
RECURSIVE SplitOn(_, _)
SplitOn(t, S) ==
    IF FindTok(t, S, 0) = -1 THEN <<t>>
    ELSE <<Slice(t, 0, FindTok(t, S, 0))>>
             \o SplitOn(From(t, FindTok(t, S, 0) + 1), S)

\* the title block that leaves the title as it was extracted
TitleBlockRawTitle(ti, au) ==
    (IF ti = <<>> THEN <<>> ELSE <<"#", " ">> \o ti \o <<"\n", "\n">>)
    \o (IF au = <<>> THEN <<>>
        ELSE <<"**Authors:**", " ">>
                 \o Join(StripNonEmpty(SplitOn(au, {"\\and", ","})),
                         <<",", " ">>)
                 \o <<"\n", "\n">>)

\* the replacement built by replace_maketitle
TitleBlock(ti, au) ==
    (IF ti = <<>> THEN <<>>
     ELSE <<"#", " ">> \o apply_inline_formats(ti) \o <<"\n", "\n">>)
    \o (IF au = <<>> THEN <<>>
        ELSE <<"**Authors:**", " ">>
                 \o Join(StripNonEmpty(SplitOn(au, {"\\and", ","})),
                         <<",", " ">>)
                 \o <<"\n", "\n">>)

replace_maketitle(t, ti, au) ==
    ReplaceAll(t, <<"\\maketitle">>, TitleBlock(ti, au))

\* re.sub(r'(\\label\{[^}]+\})\s*', r'\1\n', t)
RECURSIVE LabelsOnOwnLine(_, _)
LabelsOnOwnLine(t, p) ==
    IF p >= Len(t) THEN <<>>
    ELSE IF LabelEnd(t, p) >= 0
         THEN LET e == LabelEnd(t, p) + 1
              IN  Slice(t, p, e) \o <<"\n">>
                      \o LabelsOnOwnLine(t, e + Run(From(t, e), Spaces))
         ELSE <<Tok(t, p)>> \o LabelsOnOwnLine(t, p + 1)

eq_repl(body) ==
    <<"\n", "\n", "$$", "\n">> \o LabelsOnOwnLine(Strip(body), 0)
        \o <<"\n", "$$", "\n", "\n">>

RECURSIVE replace_equations(_)
replace_equations(t) ==
    LET b == FindSeq(t, Env("\\begin", "equation"), 0)
        e == IF b = -1 THEN -1 ELSE FindSeq(t, Env("\\end", "equation"), b + 4)
    IN  IF e = -1 THEN t
        ELSE Slice(t, 0, b) \o eq_repl(Slice(t, b + 4, e))
                 \o replace_equations(From(t, e + 4))

level_map(cmd) ==
    CASE cmd = "\\section" -> 1
      [] cmd = "\\subsection" -> 2
      [] cmd = "\\subsubsection" -> 3
      [] cmd = "\\paragraph" -> 4
      [] cmd = "\\runningtitle" -> 1
      [] OTHER -> 2

HeadingCommands ==
    {"\\section", "\\subsection", "\\subsubsection", "\\paragraph",
     "\\runningtitle"}

\* sec_pattern matched at p
SecMatch(t, p) ==
    LET open == IF p + 1 < Len(t) /\ Tok(t, p + 1) = "*" THEN p + 2 ELSE p + 1
        ok == Tok(t, p) \in HeadingCommands
                 /\ open < Len(t) /\ Tok(t, open) = "{"
        close == IF ok THEN FindTok(t, {"}"}, open + 1) ELSE -1
        lab == close + 1 + Run(From(t, close + 1), Spaces)
        labEnd == IF close = -1 THEN -1 ELSE LabelEnd(t, lab)
    IN  [found |-> close /= -1,
         title |-> Slice(t, open + 1, close),
         label |-> IF labEnd = -1 THEN <<>> ELSE Slice(t, lab + 2, labEnd),
         end   |-> IF labEnd = -1 THEN close + 1 ELSE labEnd + 1]

sec_repl(cmd, m) ==
    <<"\n", "\n">> \o [k \in 1..level_map(cmd) |-> "#"] \o <<" ">>
        \o Strip(m.title)
        \o (IF m.label = <<>> THEN <<>>
            ELSE <<"\n">> \o LabelMarker(m.label))
        \o <<"\n", "\n">>

RECURSIVE HeadingsFrom(_, _)
HeadingsFrom(t, p) ==
    IF p >= Len(t) THEN <<>>
    ELSE IF SecMatch(t, p).found
         THEN sec_repl(Tok(t, p), SecMatch(t, p))
                  \o HeadingsFrom(t, SecMatch(t, p).end)
         ELSE <<Tok(t, p)>> \o HeadingsFrom(t, p + 1)

replace_headings(t) == HeadingsFrom(t, 0)

\* the match that pairs the first \begin{name} with the last \end{name}
ListMatchLast(t, name) ==
    LET b == FindSeq(t, Env("\\begin", name), 0)
        ends == {p \in (b + 4)..(Len(t) - 4) :
                    b /= -1 /\ Slice(t, p, p + 4) = Env("\\end", name)}
        e == IF ends = {} THEN -1 ELSE CHOOSE p \in ends : \A q \in ends : q <= p
    IN  [found |-> e /= -1, start |-> b, body |-> b + 4, close |-> e,
         end |-> e + 4]

\* r'\\begin\{name\}(\[[^\]]*\])?(.*?)\\end\{name\}' with re.DOTALL, leftmost
\* match: the optional argument is given up when no end follows it
ListMatch(t, name) ==
    LET b == FindSeq(t, Env("\\begin", name), 0)
        r == IF b /= -1 /\ b + 4 < Len(t) /\ Tok(t, b + 4) = "["
             THEN FindTok(t, {"]"}, b + 5) ELSE -1
        e1 == IF r = -1 THEN -1 ELSE FindSeq(t, Env("\\end", name), r + 1)
        e0 == IF b = -1 THEN -1 ELSE FindSeq(t, Env("\\end", name), b + 4)
    IN  [found |-> e0 /= -1,
         start |-> b,
         body  |-> IF e1 /= -1 THEN r + 1 ELSE b + 4,
         close |-> IF e1 /= -1 THEN e1 ELSE e0,
         end   |-> (IF e1 /= -1 THEN e1 ELSE e0) + 4]

\* the fragments trimmed, the empty ones kept
ListItemsKeepEmpty(body) ==
    [k \in 1..Len(SplitOn(body, {"\\item"})) |->
        Strip(SplitOn(body, {"\\item"})[k])]

\* items = [i.strip() for i in re.split(r'\\item', inner) if i.strip()]
ListItems(body) == StripNonEmpty(SplitOn(body, {"\\item"}))

\* the lines of enum_repl: f"{idx}. {it}\n"
RECURSIVE EnumLines(_, _)
EnumLines(items, idx) ==
    IF items = <<>> THEN <<>>
    ELSE <<ToString(idx) \o ".", " ">> \o apply_inline_formats(Head(items))
             \o <<"\n">> \o EnumLines(Tail(items), idx + 1)

\* the lines of item_repl: f"- {it}\n"
RECURSIVE ItemLines(_)
ItemLines(items) ==
    IF items = <<>> THEN <<>>
    ELSE <<"-", " ">> \o apply_inline_formats(Head(items))
             \o <<"\n">> \o ItemLines(Tail(items))

enum_repl(body) == <<"\n", "\n">> \o EnumLines(ListItems(body), 1) \o <<"\n">>

item_repl(body) == <<"\n", "\n">> \o ItemLines(ListItems(body)) \o <<"\n">>

\* enum_env.sub(enum_repl, t)
RECURSIVE ReplaceEnumerate(_)
ReplaceEnumerate(t) ==
    LET m == ListMatch(t, "enumerate")
    IN  IF ~m.found THEN t
        ELSE Slice(t, 0, m.start) \o enum_repl(Slice(t, m.body, m.close))
                 \o ReplaceEnumerate(From(t, m.end))

\* item_env.sub(item_repl, t)
RECURSIVE ReplaceItemize(_)
ReplaceItemize(t) ==
    LET m == ListMatch(t, "itemize")
    IN  IF ~m.found THEN t
        ELSE Slice(t, 0, m.start) \o item_repl(Slice(t, m.body, m.close))
                 \o ReplaceItemize(From(t, m.end))

\* re.sub(r'\\item\s+', '\n- ', t)
RECURSIVE StrayItems(_)
StrayItems(t) ==
    IF t = <<>> THEN <<>>
    ELSE IF Head(t) = "\\item" /\ Run(Tail(t), Spaces) >= 1
         THEN <<"\n", "-", " ">>
                  \o StrayItems(From(t, 1 + Run(Tail(t), Spaces)))
         ELSE <<Head(t)>> \o StrayItems(Tail(t))

replace_lists(t) == StrayItems(ReplaceItemize(ReplaceEnumerate(t)))

----------------------------------------------------------------------------
(* formats.py: remove_leftover_commands, remove_formatting_cmds *)

commands_to_remove ==
    <<"\\vspace", "\\hspace", "\\bigskip", "\\smallskip", "\\medskip",
      "\\ignore", "\\bibliographystyle">>

commands_to_replace_newline ==
    {"\\newpage", "\\pagebreak", "\\linebreak", "\\clearpage",
     "\\cleardoublepage"}

\* _remove_latex_command: its loop from pos on
RECURSIVE RemoveCommandFrom(_, _, _)
RemoveCommandFrom(t, command, pos) ==
    LET c == FindSeq(t, <<command, "{">>, pos)
    IN  IF c = -1 THEN From(t, pos)
        ELSE Slice(t, pos, c) \o RemoveCommandFrom(t, command, Scan(t, c + 2).i)

remove_latex_command(t, command) == RemoveCommandFrom(t, command, 0)

\* for cmd in commands_to_remove: text = _remove_latex_command(text, cmd)
RECURSIVE RemoveEach(_, _)
RemoveEach(t, cmds) ==
    IF cmds = <<>> THEN t
    ELSE RemoveEach(remove_latex_command(t, Head(cmds)), Tail(cmds))

\* re.sub(r'\\(?:cmds)\s*', rep, t)
RECURSIVE CommandsAndSpace(_, _, _)
CommandsAndSpace(t, cmds, rep) ==
    IF t = <<>> THEN <<>>
    ELSE IF Head(t) \in cmds
         THEN rep \o CommandsAndSpace(From(t, 1 + Run(Tail(t), Spaces)),
                                      cmds, rep)
         ELSE <<Head(t)>> \o CommandsAndSpace(Tail(t), cmds, rep)

remove_leftover_commands(t) ==
    CollapseNewlines(
        CommandsAndSpace(
            CommandsAndSpace(RemoveEach(t, commands_to_remove),
                             {commands_to_remove[k] : k \in 1..7}, <<>>),
            commands_to_replace_newline, <<"\n", "\n">>))

formatting_cmds ==
    {"\\vspace", "\\hspace", "\\bigskip", "\\newpage", "\\smallskip",
     "\\medskip", "\\pagebreak", "\\linebreak", "\\clearpage",
     "\\cleardoublepage"}

\* formatting_cmds matched at the head of t: the length of the match, with
\* its optional [..] and its optional {..}
FormattingLen(t) ==
    LET r == IF Len(t) >= 2 /\ t[2] = "[" THEN FindTok(t, {"]"}, 2) ELSE -1
        a == IF r = -1 THEN 1 ELSE r + 1
        c == IF a < Len(t) /\ Tok(t, a) = "{" THEN FindTok(t, {"}"}, a + 1)
             ELSE -1
    IN  IF c = -1 THEN a ELSE c + 1

\* formatting_cmds.sub(' ', t)
RECURSIVE remove_formatting_cmds(_)
remove_formatting_cmds(t) ==
    IF t = <<>> THEN <<>>
    ELSE IF Head(t) \in formatting_cmds
         THEN <<" ">> \o remove_formatting_cmds(From(t, FormattingLen(t)))
         ELSE <<Head(t)>> \o remove_formatting_cmds(Tail(t))

----------------------------------------------------------------------------
(* The operations as steps.  A re.sub with a callback is a loop: each match  *)
(* is one call of the callback; `rest` is the text after the last match and *)
(* `out` the text rewritten so far.                                         *)

\* the stage that follows `stage` in clean_latex_file
StageOrder ==
    <<"preprocess_abstract", "extract_title_authors",
      "extract_document_content", "remove_comments", "replace_maketitle",
      "replace_figures", "replace_tables", "replace_equations",
      "replace_headings", "replace_lists", "apply_inline_formats",
      "remove_leftover_commands", "remove_formatting_cmds", "final_cleanup">>

\* where control is when `stage` is to run
EntryOf(stage) ==
    IF stage = "extract_title_authors" THEN "extract_title" ELSE stage

After(stage) ==
    IF kind /= "pipeline" \/ stage = "final_cleanup" THEN "done"
    ELSE LET k == CHOOSE x \in 1..Len(StageOrder) : StageOrder[x] = stage
         IN  EntryOf(StageOrder[k + 1])

\* a stage returns `result`
Finish(stage, result) ==
    /\ text' = result
    /\ rest' = result
    /\ out' = <<>>
    /\ pc' = After(stage)
    /\ ran' = Append(ran, stage)

\* extract_title_authors, its title block
ExtractTitle ==
    /\ pc = "extract_title"
    /\ LET r == ExtractCommand(text, "\\title", WarnTitle)
       IN  /\ text' = r.text
           /\ title' = r.value
           /\ diag' = diag \o r.diag
    /\ pc' = "extract_authors"
    /\ UNCHANGED <<kind, input, scanVars, authors, envVars, ran>>

\* extract_title_authors, its author block and its return
ExtractAuthors ==
    /\ pc = "extract_authors"
    /\ LET r == ExtractCommand(text, "\\author", WarnAuthor)
       IN  /\ authors' = r.value
           /\ diag' = diag \o r.diag
           /\ Finish("extract_title_authors", r.text)
    /\ UNCHANGED <<kind, input, scanVars, title, entire, inner, captions,
                   repl, grid>>

\* replace_figures: figure_repl called on the next match
FigureRepl ==
    /\ pc = "replace_figures"
    /\ EnvMatch(rest, "figure").found
    /\ LET m == EnvMatch(rest, "figure")
           r == figure_repl(m, rest)
       IN  /\ entire' = Slice(rest, m.start, m.end)
           /\ captions' = r.captions
           /\ repl' = r.repl
           /\ diag' = diag \o r.diag
           /\ out' = out \o Slice(rest, 0, m.start) \o r.repl
           /\ rest' = From(rest, m.end)
    /\ UNCHANGED <<pc, kind, input, text, scanVars, title, authors, inner,
                   grid, ran>>

\* replace_figures: no match is left
FiguresDone ==
    /\ pc = "replace_figures"
    /\ ~EnvMatch(rest, "figure").found
    /\ Finish("replace_figures", out \o rest)
    /\ UNCHANGED <<kind, input, scanVars, title, authors, entire, inner,
                   captions, repl, grid, diag>>

\* replace_tables: table_repl called on the next match, up to its call of
\* convert_tabular_to_markdown
TableRepl ==
    /\ pc = "replace_tables"
    /\ EnvMatch(rest, "table").found
    /\ LET m == EnvMatch(rest, "table")
           entire_table == Slice(rest, m.start, m.end)
           cl == CaptionLoop(entire_table, 0, WarnTable)
       IN  /\ entire' = entire_table
           /\ captions' = cl.captions
           /\ diag' = diag \o cl.diag
           /\ inner' = entire_table
           /\ out' = out \o Slice(rest, 0, m.start)
           /\ rest' = From(rest, m.end)
    /\ repl' = <<>>
    /\ grid' = <<>>
    /\ pc' = "remove_scalebox"
    /\ UNCHANGED <<kind, input, text, scanVars, title, authors, ran>>

\* convert_tabular_to_markdown: one turn of its "while True" loop that finds
\* a scalebox
ScaleboxTurn ==
    /\ pc = "remove_scalebox"
    /\ ScaleboxFound(inner)
    /\ inner' = ScaleboxSub(inner)
    /\ UNCHANGED <<pc, kind, input, text, scanVars, title, authors, rest, out,
                   entire, captions, repl, grid, diag, ran>>

\* the loop's break, the rest of convert_tabular_to_markdown and the return
\* of table_repl
TableEmit ==
    /\ pc = "remove_scalebox"
    /\ ~ScaleboxFound(inner)
    /\ LET conv == ConvertTabulars(inner)
           r == TableResult(entire, captions, conv)
       IN  /\ grid' = conv.grids
           /\ repl' = r.repl
           /\ diag' = diag \o r.diag
           /\ out' = out \o r.repl
    /\ pc' = "replace_tables"
    /\ UNCHANGED <<kind, input, text, scanVars, title, authors, rest, entire,
                   inner, captions, ran>>

\* replace_tables: no match is left
TablesDone ==
    /\ pc = "replace_tables"
    /\ ~EnvMatch(rest, "table").found
    /\ Finish("replace_tables", out \o rest)
    /\ UNCHANGED <<kind, input, scanVars, title, authors, entire, inner,
                   captions, repl, grid, diag>>

----------------------------------------------------------------------------
(* SpecConv: extract_title_authors, replace_figures and replace_tables, each *)
(* on texts put together from the pieces it tells apart                     *)

RECURSIVE Flatten(_)
Flatten(parts) ==
    IF parts = <<>> THEN <<>> ELSE Head(parts) \o Flatten(Tail(parts))

Label == <<"\\label", "{", "a", "}">>

Caption == <<"\\caption", "{">>

FlatTabular == BeginTabular \o <<"{", "c", "}", "A">> \o EndTabular

NestedTabular ==
    BeginTabular \o <<"{", "c", "}">> \o FlatTabular \o EndTabular

MetaPieces ==
    {<<"\\title", "{">>, <<"\\author", "{">>, <<"{">>, <<"}">>, <<"a">>, <<" ">>}

FigurePieces ==
    {Caption, Label, <<"{">>, <<"}">>, <<"x">>, <<" ">>,
     <<"\\end", "{", "figure">>, <<"\\end", "{", "figure", "}">>}

CaptionPieces ==
    {Caption, Label, <<"}">>, <<"x">>, <<" ">>, FlatTabular, NestedTabular}

GridPieces ==
    {BeginTabular \o <<"{", "c", "}">>, EndTabular,
     <<"\\scalebox", "{", "1", "}">>, <<"{">>, <<"}">>, <<"A">>}

RowPieces ==
    {<<"A">>, <<"A", "&", "B">>, <<"A", "&", "B", "\\&", "C">>, <<" ">>,
     <<"\\midrule", "\\textbf", "{", "A", "}">>,
     <<"\\textcolor", "{", "&", "}", "{", "A", "}", "&", "B">>}

InTable(body) ==
    <<"\\begin", "{", "table", "}">> \o body \o <<"\\end", "{", "table", "}">>

MetaTexts == {Flatten(ps) : ps \in SeqsUpTo(MetaPieces, MaxMetaChunks)}

FigureTexts ==
    LET Captioned == {Caption \o <<"x", "}">>, Caption \o <<"}">>,
                      Caption \o <<" ">> \o Label
                          \o <<"\\emph", "{", "y", "}", " ", "}">>,
                      Label, <<"x">>, <<" ">>}
    IN  {<<"\\begin", "{", "figure", "}">> \o Flatten(ps) :
            ps \in SeqsUpTo(FigurePieces, MaxFigChunks)}
        \cup {<<"\\begin", "{", "figure", "}">> \o Flatten(ps)
                  \o <<"\\end", "{", "figure", "}">> :
                 ps \in SeqsUpTo(Captioned, MaxFigChunks)}

TableTexts ==
    {InTable(Flatten(ps)) : ps \in SeqsUpTo(CaptionPieces, MaxCapChunks)}
    \cup {InTable(Flatten(ps)) : ps \in SeqsUpTo(GridPieces, MaxGridChunks)}
    \cup {InTable(BeginTabular \o <<"{", "c", "}">> \o Join(rs, <<"\\\\">>)
                      \o EndTabular) : rs \in SeqsUpTo(RowPieces, MaxRows)}
    \cup {InTable(<<"\\scalebox", "{", "1", "}", "{">>
                      \o BeginTabular \o <<"{", "c", "}">>
                      \o Join(rs, <<"\\\\">>) \o EndTabular \o <<"}">>) :
             rs \in SeqsUpTo(RowPieces, MaxRows)}

\* the values extract_title_authors can hand to replace_maketitle: both are
\* stripped
TitleValues == {<<>>, <<"T">>, <<"\\emph", "{", "T", "}">>}

AuthorValues ==
    {a \in SeqsUpTo({"A", "B", ",", "\\and", " "}, MaxAuthorLen) :
        Strip(a) = a}

\* what replace_headings tells apart: a command plain or starred, the end
\* of its argument, an argument with braces of its own, a label, a blank
HeadingPieces ==
    {<<"\\section", "{">>, <<"\\paragraph", "*", "{">>, <<"x", "}">>,
     <<"\\emph", "{", "x", "}">>, <<" ">>, Label}

\* what replace_lists tells apart: items outside a list, one list of either
\* kind, and a list inside a list; an item followed by text, by a blank, by
\* a bracket or by nothing
ListTexts ==
    LET ItemPieces == {<<"\\item", "A">>, <<"\\item", " ", "B", " ">>,
                       <<"\\item">>, <<" ">>, <<"[", "a", "]">>}
        Inner == {Flatten(ps) : ps \in SeqsUpTo(ItemPieces, MaxStageChunks)}
        Short == {Flatten(ps) : ps \in SeqsUpTo(ItemPieces, 1)}
        Kinds == {"itemize", "enumerate"}
    IN  Inner
        \cup {Env("\\begin", k) \o body \o Env("\\end", k) :
                 k \in Kinds, body \in Inner}
        \cup {Env("\\begin", k[1]) \o b[1] \o Env("\\begin", k[2]) \o b[2]
                 \o Env("\\end", k[2]) \o b[3] \o Env("\\end", k[1]) :
                 k \in Kinds \X Kinds, b \in Short \X Short \X Short}

MarkerTexts ==
    {<<"x">>, <<"\\maketitle">>, <<"\\maketitle", "x", "\\maketitle">>}

InitConv ==
    /\ \/ /\ kind = "meta" /\ pc = "extract_title" /\ input \in MetaTexts
          /\ title = <<>> /\ authors = <<>>
       \/ /\ kind = "figure" /\ pc = "replace_figures" /\ input \in FigureTexts
          /\ title = <<>> /\ authors = <<>>
       \/ /\ kind = "table" /\ pc = "replace_tables" /\ input \in TableTexts
          /\ title = <<>> /\ authors = <<>>
       \/ /\ kind = "maketitle" /\ pc = "replace_maketitle"
          /\ input \in MarkerTexts
          /\ title \in TitleValues /\ authors \in AuthorValues
       \/ /\ kind = "lists" /\ pc = "replace_lists"
          /\ input \in ListTexts
          /\ title = <<>> /\ authors = <<>>
       \/ /\ kind = "normalize" /\ pc = "remove_comments"
          /\ input \in {Flatten(ps) :
                          ps \in SeqsUpTo({<<"a", "\n">>, <<"%", "c", "\n">>,
                                           <<"a", " ", "%", "c", "\n">>,
                                           <<"b">>, <<"\n">>, <<" ">>},
                                          MaxStageChunks)}
          /\ title = <<>> /\ authors = <<>>
       \/ /\ kind = "headings" /\ pc = "replace_headings"
          /\ input \in {Flatten(ps) : ps \in SeqsUpTo(HeadingPieces, MaxStageChunks)}
          /\ title = <<>> /\ authors = <<>>
    /\ text = input
    /\ rest = input
    /\ out = <<>> /\ entire = <<>> /\ inner = <<>> /\ captions = <<>>
    /\ repl = <<>> /\ grid = <<>>
    /\ diag = <<>> /\ ran = <<>>
    /\ NoScan

\* a stage that is one call: document_content = f(document_content)
Stage(stage, result) ==
    /\ pc = stage
    /\ Finish(stage, result)
    /\ UNCHANGED <<kind, input, scanVars, title, authors, entire, inner,
                   captions, repl, grid, diag>>

ReplaceMaketitle ==
    Stage("replace_maketitle", replace_maketitle(text, title, authors))

ReplaceHeadings == Stage("replace_headings", replace_headings(text))

ReplaceLists == Stage("replace_lists", replace_lists(text))

RemoveComments == Stage("remove_comments", remove_comments(text))

NextConv ==
    \/ ExtractTitle
    \/ ExtractAuthors
    \/ FigureRepl
    \/ FiguresDone
    \/ TableRepl
    \/ ScaleboxTurn
    \/ TableEmit
    \/ TablesDone
    \/ ReplaceMaketitle
    \/ ReplaceHeadings
    \/ ReplaceLists
    \/ RemoveComments

SpecConv == InitConv /\ [][NextConv]_vars

----------------------------------------------------------------------------
(* Spec: clean_latex_file, stage by stage, on documents put together from   *)
(* the constructs its stages tell apart                                     *)

PreprocessAbstract == Stage("preprocess_abstract", preprocess_abstract(text))

ExtractDocumentContent ==
    Stage("extract_document_content", extract_document_content(text))

ReplaceEquations == Stage("replace_equations", replace_equations(text))

ApplyInlineFormats == Stage("apply_inline_formats", apply_inline_formats(text))

RemoveLeftoverCommands ==
    Stage("remove_leftover_commands", remove_leftover_commands(text))

RemoveFormattingCmds ==
    Stage("remove_formatting_cmds", remove_formatting_cmds(text))

\* final_cleanup as the last stage; write_output gets `text`
FinalCleanupLast == Stage("final_cleanup", final_cleanup(text))

CommentedTitle == <<"%", " ", "\\title", "{", "Old", "}", "\n">>

HangingTable ==
    InTable(<<"\\scalebox", "{", "1", "}", "\\scalebox", "{", "1", "}",
              "{", "{">>)

DocPieces ==
    {CommentedTitle,
     <<"\\title", "{", "New", "}">>,
     <<"\\author", "{", "A", ",", "B", "}">>,
     <<"\\maketitle">>,
     Env("\\begin", "document"),
     Env("\\end", "document"),
     Env("\\begin", "abstract") \o <<"x">> \o Env("\\end", "abstract"),
     Env("\\begin", "figure") \o Caption \o <<"x", "}">> \o Label
         \o Env("\\end", "figure"),
     InTable(<<"\\scalebox", "{", "1", "}", "{">> \o FlatTabular \o <<"}">>),
     HangingTable,
     InTable(<<"\\emph", "{", "x", "}">>),
     Env("\\begin", "equation") \o <<"x">> \o Label \o Env("\\end", "equation"),
     Env("\\begin", "equation") \o <<"\\emph", "{", "x", "}">>
         \o Env("\\end", "equation"),
     <<"\\section", "{", "x", "}">>,
     Env("\\begin", "itemize") \o <<"\\item", " ", "x">>
         \o Env("\\end", "itemize"),
     <<"\\emph", "{", "x", "}">>,
     <<"\\vspace", "{", "1", "}", "\\newpage">>,
     <<"\\vspace", "{", "1">>,
     <<"\n">>,
     <<"x">>}

DocTexts == {Flatten(ps) : ps \in SeqsUpTo(DocPieces, MaxDocChunks)}

Init ==
    /\ kind = "pipeline"
    /\ pc = "preprocess_abstract"
    /\ input \in DocTexts
    /\ text = input
    /\ rest = input
    /\ out = <<>> /\ entire = <<>> /\ inner = <<>> /\ captions = <<>>
    /\ repl = <<>> /\ grid = <<>>
    /\ title = <<>> /\ authors = <<>> /\ diag = <<>> /\ ran = <<>>
    /\ NoScan

Next ==
    \/ PreprocessAbstract
    \/ ExtractTitle
    \/ ExtractAuthors
    \/ ExtractDocumentContent
    \/ RemoveComments
    \/ ReplaceMaketitle
    \/ FigureRepl
    \/ FiguresDone
    \/ TableRepl
    \/ ScaleboxTurn
    \/ TableEmit
    \/ TablesDone
    \/ ReplaceEquations
    \/ ReplaceHeadings
    \/ ReplaceLists
    \/ ApplyInlineFormats
    \/ RemoveLeftoverCommands
    \/ RemoveFormattingCmds
    \/ FinalCleanupLast

Spec == Init /\ [][Next]_vars

----------------------------------------------------------------------------
(* What the claims about the conversions speak of, said without the code's *)
(* loops                                                                   *)

Range(f) == {f[k] : k \in 1..Len(f)}

IsAt(t, p, pat) == Slice(t, p, p + Len(pat)) = pat

Occurs(pat, t) == \E p \in 0..(Len(t) - Len(pat)) : IsAt(t, p, pat)

\* the opening brace before s has no matching closing brace in t
Unmatched(t, s) == ~\E e \in (s + 1)..Len(t) : MatchesAt(t, s, e)

\* t[p..e] is a label marker: \label{ , one token or more none of which is a
\* closing brace, }
IsMarker(t, p, e) ==
    /\ 0 <= p /\ p + 3 <= e /\ e < Len(t)
    /\ Tok(t, p) = "\\label" /\ Tok(t, p + 1) = "{" /\ Tok(t, e) = "}"
    /\ \A k \in (p + 2)..(e - 1) : Tok(t, k) /= "}"

\* the label markers lying within t[lo:hi]
MarkersIn(t, lo, hi) ==
    LET at == {pe \in (lo..(hi - 1)) \X (lo..(hi - 1)) :
                  IsMarker(t, pe[1], pe[2])}
    IN  {Slice(t, pe[1], pe[2] + 1) : pe \in at}

\* the first \caption{ of t whose brace has no match, or -1
FirstOpenCaption(t) ==
    LET open == {p \in 0..(Len(t) - 2) :
                    IsAt(t, p, Caption) /\ Unmatched(t, p + 2)}
    IN  IF open = {} THEN -1 ELSE CHOOSE p \in open : \A q \in open : p <= q

\* a \begin{tabular} occurs in t while an earlier one has not been closed
OpensWhileOpen(t) ==
    \E b1 \in 0..Len(t), b2 \in 0..Len(t) :
        /\ b1 < b2
        /\ IsAt(t, b1, BeginTabular) /\ IsAt(t, b2, BeginTabular)
        /\ ~\E e \in (b1 + 1)..(b2 - 1) : IsAt(t, e, EndTabular)

\* figure_repl or table_repl has returned for the environment `entire`
Replaced ==
    /\ kind \in {"figure", "table"}
    /\ entire /= <<>>
    /\ pc /= "remove_scalebox"

\* C4: the transformation terminates with its output for any input: it is
\* never in a state in which the loop under way goes round without changing
\* anything (convert_tabular_to_markdown's "while True" finding a scalebox
\* that its substitution does not remove).
C4_AlwaysCompletes ==
    ~(pc = "remove_scalebox" /\ ScaleboxFound(inner)
                             /\ ScaleboxSub(inner) = inner)

\* C6: a table environment in which a \begin{tabular} occurs while another is
\* still open is never given a pipe-delimited table: it gets the fenced block.
C6_NestedNeverMarkdown ==
    (Replaced /\ kind = "table" /\ OpensWhileOpen(entire)) =>
        /\ grid = <<>>
        /\ ~Occurs(<<"|", " ", "---">>, repl)
        /\ Occurs(<<Fence, "latex">>, repl)

\* C7: every label marker anywhere in the source of a figure or table
\* environment is in the text that replaces the environment, on the Markdown
\* path, on both fenced paths and when a caption's braces are unbalanced.
C7_LabelsPreserved ==
    Replaced =>
        \A mk \in MarkersIn(entire, 0, Len(entire)) : Occurs(mk, repl)

\* C8: every row rendered for a grid (header, separator, data rows) has as
\* many cells as the grid's first row, and is rendered with one more "|" than
\* it has cells.
C8_UniformWidth ==
    \A g \in Range(grid) : \A k \in 1..Len(g) :
        /\ Len(g[k]) = Len(g[1])
        /\ Cardinality({x \in 1..Len(RenderRow(g[k])) : RenderRow(g[k])[x] = "|"})
               = Len(g[1]) + 1
        /\ Occurs(RenderRow(g[k]), repl)

C8_Witness ==
    /\ Replaced /\ Len(grid) = 1 /\ Len(grid[1]) = 4
    /\ grid[1][1] = <<<<"A">>, <<"B">>>>
    /\ grid[1][3] = <<<<"A">>, <<>>>>
    /\ grid[1][4] = <<<<"A">>, <<"B">>>>
    /\ Occurs(<<"A", "&", "B", "\\&", "C">>, entire)

\* the step under way scans the argument of cmd, whose brace has no match
OpenCommand(cmd) == FindSeq(text, <<cmd, "{">>, 0)

TitleOpen ==
    /\ pc = "extract_title"
    /\ OpenCommand("\\title") >= 0
    /\ Unmatched(text, OpenCommand("\\title") + 2)

AuthorOpen ==
    /\ pc = "extract_authors"
    /\ OpenCommand("\\author") >= 0
    /\ Unmatched(text, OpenCommand("\\author") + 2)

\* the text figure_repl or table_repl scans next for captions
NextScanned ==
    LET m == EnvMatch(rest, IF pc = "replace_figures" THEN "figure" ELSE "table")
    IN  IF pc = "replace_figures" THEN Slice(rest, m.body, m.close)
        ELSE Slice(rest, m.start, m.end)

CaptionOpen ==
    /\ \/ pc = "replace_figures" /\ EnvMatch(rest, "figure").found
       \/ pc = "replace_tables" /\ EnvMatch(rest, "table").found
    /\ FirstOpenCaption(NextScanned) >= 0

\* what is common to the claim and to the amended claim: the diagnostic, and
\* control going on to what follows the scan
C10_Recovers ==
    /\ TitleOpen => /\ diag' = Append(diag, WarnTitle)
                    /\ pc' = "extract_authors"
    /\ AuthorOpen => /\ diag' = Append(diag, WarnAuthor)
                     /\ pc' = After("extract_title_authors")
    /\ (CaptionOpen /\ pc = "replace_figures")
           => /\ diag' = Append(diag, WarnFigure)
              /\ Occurs(<<"**Figure:**">>, repl')
    /\ (CaptionOpen /\ pc = "replace_tables")
           => /\ diag' = Append(diag, WarnTable)
              /\ pc' = "remove_scalebox"

C10_TitleAuthorValue ==
    /\ TitleOpen => title' = Strip(From(text, OpenCommand("\\title") + 2))
    /\ AuthorOpen => authors' = Strip(From(text, OpenCommand("\\author") + 2))

ClaimedRank(stage) ==
    CASE stage = "remove_comments" -> 1
      [] stage = "extract_title_authors" -> 2
      [] stage = "extract_document_content" -> 3
      [] stage = "replace_maketitle" -> 4
      [] stage = "replace_figures" -> 5
      [] stage = "replace_tables" -> 6
      [] stage = "replace_equations" -> 7
      [] stage = "replace_headings" -> 8
      [] stage = "replace_lists" -> 9
      [] stage = "apply_inline_formats" -> 10
      [] stage = "remove_leftover_commands" -> 11
      [] stage = "remove_formatting_cmds" -> 11
      [] stage = "final_cleanup" -> 12
      [] OTHER -> 0

\* C5: the stages run once each and in the order Normalizer, Metadata
\* Extractor, Body Selector, title insertion, figures, tables, equations,
\* headings, lists, Inline Formatter, Stripper, Final Cleanup; the text that
\* metadata extraction and body selection work on has no comment left.
C5_StageOrder ==
    /\ \A a \in 1..Len(ran), b \in 1..Len(ran) :
           a < b => /\ ran[a] /= ran[b]
                    /\ \/ ClaimedRank(ran[a]) = 0
                       \/ ClaimedRank(ran[b]) = 0
                       \/ ClaimedRank(ran[a]) <= ClaimedRank(ran[b])
    /\ pc \in {"extract_title", "extract_authors", "extract_document_content"}
           => \A p \in 0..(Len(text) - 1) : ~CommentAt(text, p)

\* remove_leftover_commands is to run, and the scan it makes for one of the
\* commands it removes with their argument finds no matching brace
LeftoverOpen ==
    /\ pc = "remove_leftover_commands"
    /\ \E k \in 1..Len(commands_to_remove) :
           LET t == RemoveEach(text, SubSeq(commands_to_remove, 1, k - 1))
               c == FindSeq(t, <<commands_to_remove[k], "{">>, 0)
           IN  c >= 0 /\ Unmatched(t, c + 2)

\* table_repl is about to take its failed path, on which
\* remove_captions_and_labels scans a caption whose brace has no match
CaptionRemoverOpen ==
    /\ pc = "remove_scalebox" /\ pc' = "replace_tables"
    /\ diag' /= <<>> /\ diag'[Len(diag')] = WarnFailed
    /\ FirstOpenCaption(entire) >= 0

\* C11: every brace scan that reaches the end of the text with depth > 0
\* prints a diagnostic of its own: those of the title, the author and the
\* captions, that of the leftover-command stripper, and that of the caption
\* remover on the failed path of a table (which prints besides the diagnostic
\* of the failed conversion).
C11_EveryOpenScanDiagnosed ==
    [][/\ (TitleOpen \/ AuthorOpen \/ CaptionOpen \/ LeftoverOpen)
              => Len(diag') > Len(diag)
       /\ CaptionRemoverOpen => Len(diag') >= Len(diag) + 2
      ]_vars

\* the tokens of t at the positions (counted from 0) that are not in D
RECURSIVE Without(_, _)
Without(t, D) ==
    IF t = <<>> THEN <<>>
    ELSE Without(SubSeq(t, 1, Len(t) - 1), D)
             \o (IF (Len(t) - 1) \in D THEN <<>> ELSE <<t[Len(t)]>>)

\* the first declaration cmd{...} of t by the definition of matching braces:
\* where it starts, where its argument starts, and the end of the span
\* (-1 when the brace has no match)
Declaration(t, cmd) ==
    LET m == FindSeq(t, <<cmd, "{">>, 0)
        ends == {e \in (m + 3)..Len(t) : MatchesAt(t, m + 2, e)}
    IN  [found |-> m >= 0,
         start |-> m,
         arg   |-> m + 2,
         end   |-> IF m >= 0 /\ ends /= {} THEN CHOOSE e \in ends : TRUE
                   ELSE -1]

\* the argument of a declaration trimmed, empty when there is none
ArgumentOf(t, d) ==
    IF d.found THEN Strip(Slice(t, d.arg, d.end - 1)) ELSE <<>>

\* the positions a declaration takes up
SpanOf(d) == IF d.found THEN d.start..(d.end - 1) ELSE {}

\* C12: the extractor honours the first \title{ and the first \author{ of
\* its input: when their braces are balanced, the body returned is the input
\* without those two spans, everything else unchanged and in order, and the
\* title and the authors returned are the two arguments trimmed.
C12_FirstDeclarations ==
    LET ti == Declaration(input, "\\title")
        au == Declaration(input, "\\author")
    IN  (/\ kind = "meta" /\ pc = "done"
         /\ ti.found => ti.end >= 0
         /\ au.found => au.end >= 0)
        => /\ title = ArgumentOf(input, ti)
           /\ authors = ArgumentOf(input, au)
           /\ text = Without(input, SpanOf(ti) \cup SpanOf(au))

\* t with its first declaration cmd{...} taken out: the command with its
\* argument, or the command and all that follows it when the brace has no
\* match
WithoutDeclaration(t, cmd) ==
    LET d == Declaration(t, cmd)
    IN  IF ~d.found THEN t
        ELSE IF d.end >= 0 THEN Without(t, SpanOf(d))
        ELSE Slice(t, 0, d.start)

\* C13: the title and the authors are extracted independently: the authors
\* returned are those returned for the input without its title declaration,
\* and the title returned is the one returned for the input without its
\* author declaration; either declaration may be absent.
C13_Independent ==
    (kind = "meta" /\ pc = "done")
    => /\ authors = ExtractCommand(WithoutDeclaration(input, "\\title"),
                                   "\\author", WarnAuthor).value
       /\ title = ExtractCommand(WithoutDeclaration(input, "\\author"),
                                 "\\title", WarnTitle).value

\* the entries of an author field from position k on (counted from 1): what
\* lies between one \and or comma and the next, trimmed, the empty ones left
\* out
RECURSIVE NamesFrom(_, _)
NamesFrom(au, k) ==
    IF k > Len(au) + 1 THEN <<>>
    ELSE LET seps == {n \in k..Len(au) : au[n] \in {"\\and", ","}}
             n == IF seps = {} THEN Len(au) + 1
                  ELSE CHOOSE x \in seps : \A y \in seps : x <= y
             entry == Strip(SubSeq(au, k, n - 1))
         IN  (IF entry = <<>> THEN <<>> ELSE <<entry>>)
                 \o NamesFrom(au, n + 1)

\* the block of the claim, its heading showing `shown`
MarkerBlock(shown) ==
    (IF title = <<>> THEN <<>>
     ELSE <<"#", " ">> \o shown \o <<"\n", "\n">>)
    \o (IF authors = <<>> THEN <<>>
        ELSE <<"**Authors:**", " ">>
                 \o Join(NamesFrom(authors, 1), <<",", " ">>)
                 \o <<"\n", "\n">>)

\* the input with each \maketitle replaced by block
MarkersReplaced(block) ==
    Flatten([k \in 1..Len(input) |->
                IF input[k] = "\\maketitle" THEN block ELSE <<input[k]>>])

\* C14 as stated: the heading shows the title as extracted.
C14_Original ==
    (kind = "maketitle" /\ pc = "done")
    => text = MarkersReplaced(MarkerBlock(title))

\* C14: title insertion replaces every \maketitle with the same block: the
\* heading "# " with the title inline-formatted when the title is not empty,
\* then "**Authors:** " with the names when the author field is not empty,
\* each followed by a blank line; the names are the author field split on
\* \and or comma, each entry trimmed, the empty ones dropped, order and
\* duplicates kept, joined by ", "; with neither title nor authors every
\* marker is replaced by the empty string. Nothing else changes.
C14_TitleBlock ==
    (kind = "maketitle" /\ pc = "done")
    => /\ text = MarkersReplaced(MarkerBlock(apply_inline_formats(title)))
       /\ (title = <<>> /\ authors = <<>>)
              => text = SelectSeq(input, LAMBDA x : x /= "\\maketitle")

\* two markers replaced by a block with a formatted title and authors given
\* with \and, a comma and an empty entry
C14_Witness ==
    /\ kind = "maketitle" /\ pc = "done"
    /\ input = <<"\\maketitle", "x", "\\maketitle">>
    /\ title = <<"\\emph", "{", "T", "}">>
    /\ authors = <<"A", "\\and", ",", "A">>
    /\ text = <<"#", " ", "*", "T", "*", "\n", "\n",
                "**Authors:**", " ", "A", ",", " ", "A", "\n", "\n",
                "x",
                "#", " ", "*", "T", "*", "\n", "\n",
                "**Authors:**", " ", "A", ",", " ", "A", "\n", "\n">>

\* where the tabular opened before p closes, counting \begin{tabular} up and
\* \end{tabular} down from depth d; -1 when it does not close
RECURSIVE TabularClose(_, _, _)
TabularClose(t, p, d) ==
    IF p >= Len(t) THEN -1
    ELSE IF IsAt(t, p, BeginTabular)
         THEN TabularClose(t, p + Len(BeginTabular), d + 1)
    ELSE IF IsAt(t, p, EndTabular)
         THEN IF d = 1 THEN p + Len(EndTabular)
              ELSE TabularClose(t, p + Len(EndTabular), d - 1)
    ELSE TabularClose(t, p + 1, d)

\* table_repl has returned on its path for nested grids
NestedPath ==
    /\ kind = "table" /\ Replaced
    /\ diag /= <<>> /\ diag[Len(diag)] = WarnNested

\* C15: when nesting is detected the fenced block holds the whole source of
\* the nested grid, from the outermost \begin{tabular} through the
\* \end{tabular} that closes it; no part of the outer grid is dropped.
C15_NestedSourceComplete ==
    NestedPath
    => LET b == FindSeq(entire, BeginTabular, 0)
           e == TabularClose(entire, b + Len(BeginTabular), 1)
       IN  (b >= 0 /\ e >= 0) => Occurs(Fenced(Slice(entire, b, e)), repl)

\* the fenced blocks of t: from a fence tagged latex through the next fence
FencedBlocks(t) ==
    {Slice(t, b, FindTok(t, {Fence}, b + 1) + 1) :
        b \in {p \in 0..(Len(t) - 2) :
                  /\ IsAt(t, p, <<Fence, "latex">>)
                  /\ FindTok(t, {Fence}, p + 1) >= 0}}

\* the stages that run after replace_tables and before final_cleanup
AfterTables ==
    {"replace_equations", "replace_headings", "replace_lists",
     "apply_inline_formats", "remove_leftover_commands",
     "remove_formatting_cmds"}

\* C16: what a fallback path of the table converter has put inside a fenced
\* block is left as it is by every stage that runs after the table
\* converter: equations, headings, lists, inline formatting, leftover-command
\* stripping and formatting-command removal.
C16_FencedUntouched ==
    [][(pc \in AfterTables)
           => (\A block \in FencedBlocks(text) : Occurs(block, text'))
      ]_vars

\* the positions of t from p on taken up by captions: \caption{ with its
\* argument through the matching brace, or through the end of t when
\* `open` says so and the brace has no match
RECURSIVE CaptionSpans(_, _, _)
CaptionSpans(t, p, open) ==
    LET at == {c \in p..(Len(t) - 2) : IsAt(t, c, Caption)}
        c == CHOOSE x \in at : \A y \in at : x <= y
        ends == {e \in (c + 3)..Len(t) : MatchesAt(t, c + 2, e)}
    IN  IF at = {} THEN {}
        ELSE IF ends /= {}
             THEN LET e == CHOOSE x \in ends : TRUE
                  IN  c..(e - 1) \cup CaptionSpans(t, e, open)
        ELSE IF open THEN c..(Len(t) - 1)
        ELSE CaptionSpans(t, c + 2, open)

\* the positions of t taken up by label markers
LabelSpans(t) ==
    UNION {pe[1]..pe[2] :
              pe \in {x \in (0..Len(t)) \X (0..Len(t)) : IsMarker(t, x[1], x[2])}}

\* t without its captions and then without the labels of what is left
Cleaned(t, open) ==
    LET g == Without(t, CaptionSpans(t, 0, open))
    IN  Without(g, LabelSpans(g))

\* table_repl has returned on its path for a failed conversion
FailedPath ==
    /\ kind = "table" /\ Replaced
    /\ diag /= <<>> /\ diag[Len(diag)] = WarnFailed

\* C17 as stated: only the captions with a balanced argument are removed.
C17_Original ==
    FailedPath
    => repl = TableHead(captions, entire) \o Fenced(Cleaned(entire, FALSE))

\* C17: when a table has no grid, or the conversion of its grids yields
\* nothing, the output block is the caption and the labels followed by a
\* fenced latex block holding the table's source without its captions (each
\* \caption{ with its argument through the matching brace, or through the
\* end of the source when the brace has no match) and without the label
\* markers of what is then left, everything else unchanged.
C17_FailedPathSource ==
    FailedPath
    => repl = TableHead(captions, entire) \o Fenced(Cleaned(entire, TRUE))

\* a table without a grid, with a label and a balanced caption, fenced
\* without them
C17_Witness ==
    /\ FailedPath
    /\ entire = InTable(Label \o Caption \o <<"}">>)
    /\ Occurs(Fenced(InTable(<<>>)), repl)

\* the lines of the pipe table of one grid, one after the other
GridLines(g) == Join([k \in 1..Len(g) |-> RenderRow(g[k])], <<>>)

\* C18: for a table environment that is not nested and holds a flat grid
\* with one non-empty row or more, the output holds a pipe table: the first
\* row as header line, one separator line with one '---' per header column,
\* then one line per remaining row in source order, the rows split on \\
\* and the cells on & and trimmed.
C18_FlatGridRendered ==
    (kind = "table" /\ Replaced /\ ~OpensWhileOpen(entire))
    => \A g \in Range(GridsOf(TabularsFrom(entire, 0))) :
           Occurs(GridLines(g), repl)

\* the bodies of the equation environments of t
EquationBodies(t) ==
    {Slice(t, b + 4, FindSeq(t, Env("\\end", "equation"), b + 4)) :
        b \in {p \in 0..(Len(t) - 4) :
                  /\ IsAt(t, p, Env("\\begin", "equation"))
                  /\ FindSeq(t, Env("\\end", "equation"), p + 4) >= 0}}

\* C19: the equation converter puts every label marker of an equation on a
\* line of its own immediately before the equation body, wherever it stood
\* in the source, inside a pair of $$ delimiters with blank lines around.
C19_LabelsBeforeBody ==
    [][(pc = "replace_equations")
           => (\A body \in EquationBodies(text) :
                   \A m \in MarkersIn(body, 0, Len(body)) :
                       LET content == Strip(Without(body, LabelSpans(body)))
                       IN  Occurs(<<"\n", "\n", "$$", "\n">> \o m \o <<"\n">>
                                      \o content \o <<"\n", "$$", "\n", "\n">>,
                                  text'))
      ]_vars

\* the math blocks of t: from a $$ that opens a line through the next $$
MathBlocks(t) ==
    {Slice(t, b, FindTok(t, {"$$"}, b + 1) + 1) :
        b \in {p \in 0..(Len(t) - 2) :
                  /\ IsAt(t, p, <<"$$", "\n">>)
                  /\ FindTok(t, {"$$"}, p + 1) >= 0}}

\* the stages that run after replace_equations
AfterEquations ==
    {"replace_headings", "replace_lists", "apply_inline_formats",
     "remove_leftover_commands", "remove_formatting_cmds", "final_cleanup"}

\* C20: the content of an equation is between the $$ delimiters as it is in
\* the source: the equation stage wraps it unchanged (an equation without
\* label), and no later stage rewrites or strips anything inside a math
\* block.
C20_MathVerbatim ==
    [][/\ (pc = "replace_equations")
           => (\A body \in EquationBodies(text) :
                   MarkersIn(body, 0, Len(body)) = {}
                   => Occurs(<<"$$", "\n">> \o Strip(body) \o <<"\n", "$$">>,
                             text'))
       /\ (pc \in AfterEquations)
           => (\A block \in MathBlocks(text) : Occurs(block, text'))
      ]_vars

\* the number of '#' the claim gives a sectioning command
ClaimedLevel(cmd) ==
    CASE cmd \in {"\\section", "\\runningtitle"} -> 1
      [] cmd = "\\subsection" -> 2
      [] cmd = "\\subsubsection" -> 3
      [] cmd = "\\paragraph" -> 4

\* t from p on with every sectioning command, starred or not, whose argument
\* ends at its matching brace rewritten to a heading: the '#'s, the argument
\* trimmed and, when a label marker follows (blanks allowed in between), the
\* marker on the next line
RECURSIVE HeadingsRewritten(_, _)
HeadingsRewritten(t, p) ==
    IF p >= Len(t) THEN <<>>
    ELSE LET open == IF p + 1 < Len(t) /\ Tok(t, p + 1) = "*" THEN p + 2
                     ELSE p + 1
             ends == IF /\ Tok(t, p) \in HeadingCommands
                        /\ open < Len(t) /\ Tok(t, open) = "{"
                     THEN {e \in (open + 2)..Len(t) : MatchesAt(t, open + 1, e)}
                     ELSE {}
         IN  IF ends = {} THEN <<Tok(t, p)>> \o HeadingsRewritten(t, p + 1)
             ELSE LET e == CHOOSE x \in ends : TRUE
                      lab == e + Run(From(t, e), Spaces)
                      les == {x \in lab..(Len(t) - 1) : IsMarker(t, lab, x)}
                      head == <<"\n", "\n">>
                                  \o [k \in 1..ClaimedLevel(Tok(t, p)) |-> "#"]
                                  \o <<" ">> \o Strip(Slice(t, open + 1, e - 1))
                  IN  IF les = {}
                      THEN head \o <<"\n", "\n">> \o HeadingsRewritten(t, e)
                      ELSE LET le == CHOOSE x \in les : TRUE
                           IN  head \o <<"\n">> \o Slice(t, lab, le + 1)
                                   \o <<"\n", "\n">>
                                   \o HeadingsRewritten(t, le + 1)

\* C21: the heading converter rewrites every sectioning command, starred or
\* not, to a heading with 1 to 4 '#' (section and runningtitle 1, subsection
\* 2, subsubsection 3, paragraph 4) followed by the heading text trimmed and,
\* when a label follows the command, the label marker on the next line.
C21_HeadingsRewritten ==
    (kind = "headings" /\ pc = "done" /\ Balanced(input))
    => text = HeadingsRewritten(input, 0)

\* what lies between one token of S and the next in t from position k on
\* (counted from 1), trimmed, the empty fragments left out
RECURSIVE FragmentsFrom(_, _, _)
FragmentsFrom(t, k, S) ==
    IF k > Len(t) + 1 THEN <<>>
    ELSE LET seps == {n \in k..Len(t) : t[n] \in S}
             n == IF seps = {} THEN Len(t) + 1
                  ELSE CHOOSE x \in seps : \A y \in seps : x <= y
             fragment == Strip(SubSeq(t, k, n - 1))
         IN  (IF fragment = <<>> THEN <<>> ELSE <<fragment>>)
                 \o FragmentsFrom(t, n + 1, S)

\* the inner content of a list whose text after \begin{...} is `after`: an
\* optional argument in brackets right after the delimiter is not part of it
InnerContent(after) ==
    IF after /= <<>> /\ Head(after) = "[" /\ FindTok(after, {"]"}, 1) >= 0
    THEN From(after, FindTok(after, {"]"}, 1) + 1)
    ELSE after

\* the block of a list with this inner content: one line per fragment left,
\* numbered from 1 without a gap or prefixed '- '
ListBlock(inner_content, numbered) ==
    LET items == FragmentsFrom(inner_content, 1, {"\\item"})
    IN  <<"\n", "\n">>
            \o Flatten([k \in 1..Len(items) |->
                   (IF numbered THEN <<ToString(k) \o ".">> ELSE <<"-">>)
                       \o <<" ">> \o apply_inline_formats(items[k]) \o <<"\n">>])
            \o <<"\n">>

\* the positions of the list delimiters of the input
BeginsOf(t) == {p \in 0..(Len(t) - 1) : Tok(t, p) = "\\begin"}

EndsOf(t) == {p \in 0..(Len(t) - 1) : Tok(t, p) = "\\end"}

\* the input of the list converter is one list that holds no other
OneList ==
    /\ kind = "lists" /\ pc = "done"
    /\ BeginsOf(input) = {0} /\ EndsOf(input) = {Len(input) - 4}

\* the input is a list that holds one list, the two of kinds outer and inner
ListInList(outer, inner_kind) ==
    /\ kind = "lists" /\ pc = "done"
    /\ Cardinality(BeginsOf(input)) = 2 /\ 0 \in BeginsOf(input)
    /\ Tok(input, 2) = outer
    /\ \E b \in BeginsOf(input) \ {0} : Tok(input, b + 2) = inner_kind

\* C22: enumerated lists are converted first and unordered lists second; the
\* inner content of a list is split on \item, the empty fragments are
\* discarded, and one line is emitted per fragment left, in source order:
\* numbered 1., 2., ... without a gap in an enumerated list, prefixed '- ' in
\* an unordered one. An enumerated list inside an unordered one is therefore
\* already a numbered block when the unordered list is split.
C22_ListLines ==
    /\ OneList
           => text = ListBlock(InnerContent(Slice(input, 4, Len(input) - 4)),
                               Tok(input, 2) = "enumerate")
    /\ ListInList("itemize", "enumerate")
           => LET b == CHOOSE x \in BeginsOf(input) : x /= 0
                  e == CHOOSE x \in EndsOf(input) : x /= Len(input) - 4
                  numbered == ListBlock(InnerContent(Slice(input, b + 4, e)), TRUE)
              IN  text = ListBlock(InnerContent(Slice(input, 4, b) \o numbered
                                       \o Slice(input, e + 4, Len(input) - 4)),
                                   FALSE)

\* an enumerated list with a discarded fragment and two items
C22_Witness ==
    /\ OneList
    /\ input = Env("\\begin", "enumerate")
                   \o <<"\\item", "\\item", "A", "\\item", " ", "B", " ">>
                   \o Env("\\end", "enumerate")
    /\ text = <<"\n", "\n", "1.", " ", "A", "\n", "2.", " ", "B", "\n", "\n">>

\* C27: after the list converter no \item is left in the document: every
\* \item outside a recognized list has become a new line starting with '- ',
\* whatever follows it (a blank, the end of the text, a bracket or anything
\* else).
C27_NoItemLeft ==
    (kind = "lists" /\ pc = "done") => ~Occurs(<<"\\item">>, text)

\* C30: for a list inside a list of the same kind the outer \begin is paired
\* with the first \end that follows, the inner one: the output starts with
\* the block of the content up to that \end, the inner \begin stands in the
\* text of one of its items, and the outer \end is left at the end of the
\* output.
C30_InnerEndPaired ==
    \A k \in {"itemize", "enumerate"} :
        ListInList(k, k)
        => LET e == CHOOSE x \in EndsOf(input) : x /= Len(input) - 4
               block == ListBlock(InnerContent(Slice(input, 4, e)),
                                  k = "enumerate")
           IN  /\ IsAt(text, 0, block)
               /\ Occurs(Env("\\begin", k), block)
               /\ IsAt(text, Len(text) - 4, Env("\\end", k))

\* an unordered list in an unordered list: the inner \begin in the first
\* item, the outer \end left
C30_Witness ==
    /\ ListInList("itemize", "itemize")
    /\ input = Env("\\begin", "itemize") \o <<"\\item", "A">>
                   \o Env("\\begin", "itemize") \o <<"\\item", " ", "B", " ">>
                   \o Env("\\end", "itemize") \o Env("\\end", "itemize")
    /\ text = <<"\n", "\n", "-", " ", "A"
                >> \o Env("\\begin", "itemize")
                   \o <<"\n", "-", " ", "B", "\n", "\n">>
                   \o Env("\\end", "itemize")

\* the arguments of the captions of t from p on, in source order, each
\* trimmed, without its label markers, and trimmed again
RECURSIVE CaptionArguments(_, _)
CaptionArguments(t, p) ==
    LET at == {c \in p..(Len(t) - 2) : IsAt(t, c, Caption)}
        c == CHOOSE x \in at : \A y \in at : x <= y
        ends == {e \in (c + 3)..Len(t) : MatchesAt(t, c + 2, e)}
        e == CHOOSE x \in ends : TRUE
        arg == Strip(Slice(t, c + 2, e - 1))
    IN  IF at = {} \/ ends = {} THEN <<>>
        ELSE <<Strip(Without(arg, LabelSpans(arg)))>> \o CaptionArguments(t, e)

\* the label markers of t from p on, in source order, a blank before each
RECURSIVE MarkersInOrder(_, _)
MarkersInOrder(t, p) ==
    IF p >= Len(t) THEN <<>>
    ELSE LET ends == {e \in p..(Len(t) - 1) : IsMarker(t, p, e)}
         IN  IF ends = {} THEN MarkersInOrder(t, p + 1)
             ELSE LET e == CHOOSE x \in ends : TRUE
                  IN  <<" ">> \o Slice(t, p, e + 1) \o MarkersInOrder(t, e + 1)

\* the inner text of the figure that was replaced
FigureInner ==
    Slice(entire, EnvMatch(entire, "figure").body,
          EnvMatch(entire, "figure").close)

\* C23: a figure environment is replaced by one block: blank line,
\* '**Figure:** ', the caption, the label markers, blank line; the caption is
\* the \caption arguments of the figure in source order, each without the
\* label markers in it, joined by one blank and inline-formatted; the label
\* markers are the labels of the figure's inner text in source order.
C23_FigureBlock ==
    (kind = "figure" /\ Replaced /\ FirstOpenCaption(FigureInner) = -1)
    => /\ repl = <<"\n", "\n", "**Figure:**", " ">>
                    \o apply_inline_formats(
                           Strip(Join(CaptionArguments(FigureInner, 0), <<" ">>)))
                    \o MarkersInOrder(FigureInner, 0)
                    \o <<"\n", "\n">>
       /\ pc = "done" => text = repl \o From(input, Len(entire))

\* a figure with two captions, a label inside one of them and one outside
C23_Witness ==
    /\ kind = "figure" /\ pc = "done"
    /\ FigureInner = Caption \o <<" ">> \o Label
                         \o <<"\\emph", "{", "y", "}", " ", "}">>
                         \o Caption \o <<"x", "}">> \o Label
    /\ repl = <<"\n", "\n", "**Figure:**", " ", "*", "y", "*", " ", "x", " ">>
                  \o Label \o <<" ">> \o Label \o <<"\n", "\n">>

\* C24: the normalizer keeps the paragraph boundaries: a newline of its
\* output belongs to a paragraph break of exactly two newlines, and the
\* output has a paragraph break only where the input, before its comments
\* were removed, had two or more line ends in a row.
C24_ParagraphBreaks ==
    (kind = "normalize" /\ pc = "done")
    => /\ \A p \in 0..(Len(text) - 1) :
              Tok(text, p) = "\n"
              => \E q \in {p - 1, p} :
                     /\ q >= 0 /\ IsAt(text, q, <<"\n", "\n">>)
                     /\ q = 0 \/ Tok(text, q - 1) /= "\n"
                     /\ q + 2 >= Len(text) \/ Tok(text, q + 2) /= "\n"
       /\ Occurs(<<"\n", "\n">>, text) => Occurs(<<"\n", "\n">>, input)

\* final_cleanup has returned `out`
CleanupDone == kind = "cleanup" /\ pc \in {"cleaned", "cleaned twice"}

\* out ends with exactly one newline, holds no run of three newlines, no
\* blank or tab next to a newline and no run of two blanks
CleanInside ==
    /\ out /= <<>> /\ out[Len(out)] = "\n"
    /\ Len(out) >= 2 => out[Len(out) - 1] /= "\n"
    /\ ~Occurs(<<"\n", "\n", "\n">>, out)
    /\ ~Occurs(<<" ", " ">>, out)
    /\ \A w \in {" ", "\t"} :
           ~Occurs(<<w, "\n">>, out) /\ ~Occurs(<<"\n", w>>, out)

\* C25 as stated: the output never starts with whitespace.
C25_Original ==
    CleanupDone => (CleanInside /\ out[1] \notin Spaces)

\* C25: for every input the output of final_cleanup ends with exactly one
\* newline, holds no run of three or more newlines, no blank or tab directly
\* before or after a newline and no run of two or more blanks; it starts
\* with no whitespace, unless the input is blank, when it is the one newline.
C25_CleanOutput ==
    CleanupDone
    => /\ CleanInside
       /\ out[1] \notin Spaces \/ (out = <<"\n">> /\ Strip(input) = <<>>)

\* blanks and a tab around a newline removed, the text ending in one newline
C25_Witness ==
    /\ CleanupDone
    /\ input = <<" ", "a", " ", "\n", "\t">>
    /\ out = <<"a", "\n">>

\* t from p on with every \scalebox{factor}{argument} replaced by its
\* argument, taken through the brace that matches its opening one, and
\* unwrapped in turn
RECURSIVE Unwrapped(_, _)
Unwrapped(t, p) ==
    IF p >= Len(t) THEN <<>>
    ELSE LET a == TwoArgOpen(t, p, "\\scalebox")
             ends == IF a = -1 THEN {}
                     ELSE {e \in (a + 1)..Len(t) : MatchesAt(t, a, e)}
         IN  IF ends = {} THEN <<Tok(t, p)>> \o Unwrapped(t, p + 1)
             ELSE LET e == CHOOSE x \in ends : TRUE
                  IN  Unwrapped(Slice(t, a, e - 1), 0) \o Unwrapped(t, e)

\* C26: the scale-wrap stripping replaces each \scalebox{factor}{argument} by
\* its brace-balanced argument and leaves everything else as it is, no
\* \scalebox remains after it, and a flat grid in a scale-wrap is converted
\* like the grid without the wrapper.
C26_ScaleboxUnwrapped ==
    (kind = "table" /\ Replaced /\ Balanced(entire))
    => /\ inner = Unwrapped(entire, 0)
       /\ \A p \in 0..(Len(inner) - 1) : TwoArgOpen(inner, p, "\\scalebox") = -1
       /\ \A g \in Range(GridsOf(TabularsFrom(Unwrapped(entire, 0), 0))) :
              ~OpensWhileOpen(entire) => Occurs(GridLines(g), repl)

\* C28: the loop that removes the scale-wraps terminates: whenever its
\* search finds a \scalebox{...}{ the substitution that follows makes the
\* text strictly shorter.
C28_ScaleboxShortens ==
    (kind = "table" /\ pc = "remove_scalebox" /\ ScaleboxFound(inner))
    => Len(ScaleboxSub(inner)) < Len(inner)

\* the token at 0-based index k of row r stands in the first argument of a
\* \textcolor{..}{..} command
InColourArgument(r, k) ==
    \E p \in 0..(Len(r) - 1) :
        LET a == TwoArgOpen(r, p, "\\textcolor")
        IN  /\ a /= -1
            /\ \E e \in a..(Len(r) - 1) :
                   /\ Tok(r, e) = "}"
                   /\ \A j \in a..(e - 1) : Tok(r, j) \notin {"}", "\n"}
            /\ p + 1 < k /\ k < a - 2

\* the separators of a row, escaped or not
Separators(r) == {k \in 0..(Len(r) - 1) : Tok(r, k) \in {"&", "\\&"}}

\* the rows of the tabulars of the text the sub-converter splits
SplitRows == UNION {Range(TabularRows(c)) : c \in Range(TabularsFrom(inner, 0))}

NoAmpersandEmitted ==
    \A g \in Range(grid) : \A row \in Range(g) : \A cell \in Range(row) :
        "&" \notin Range(cell) /\ "\\&" \notin Range(cell)

====
